---------------------------- MODULE Spec2Model ----------------------------
(***************************************************************************)
(* A model of the YouTube Focus extension: the strict scoring engine       *)
(* (parseUserGoal, applyIntentOverride, evaluateVideo, filterVideos), the  *)
(* hybrid keyword + classifier path (processVideo, scanPage) and the       *)
(* background classifier listener.                                         *)
(*                                                                         *)
(* A JavaScript string is a sequence of one-character strings, so that     *)
(* lower-casing, trimming, splitting and substring search are computed     *)
(* character by character, as the code computes them.  A JavaScript value  *)
(* is a record [type, str]; str is <<>> for the values that are no string. *)
(***************************************************************************)
EXTENDS Integers, Sequences, FiniteSets, TLC

VARIABLES
    pc,             \* position of the pure-function harness
    goalString,     \* argument of parseUserGoal
    videoTitle,     \* argument of evaluateVideo
    coreTopics,     \* Set<string>: result of parseUserGoal
    blocklist,      \* Set<string>: the blocklist handed to evaluateVideo
    evaluation,     \* result object of evaluateVideo
    storedGoal,     \* chrome.storage.local: the value under 'focusGoal'
    feed,           \* strict script: the ytd-rich-item-renderer elements
    gets,           \* strict script: chrome.storage.local.get calls not yet answered
    retryTimers,    \* strict script: pending setTimeout(filterVideos(n), RETRY_DELAY)
    debounceTimer,  \* strict script: the timeout of debouncedApplyFilters is set
    shorts,         \* strict script: the a[title="Shorts"] link
    elapsed,        \* strict script: ticks since the debounce timeout was set
    burst,          \* strict script: notifications since the last applyFilters()
    lastScan,       \* what the filterVideos callback that just ran did (history)
    pathname,       \* hybrid script: location.pathname
    nodes,          \* hybrid script: the ytd-rich-item-renderer elements
    calls,          \* hybrid script: the suspended processVideo calls of each node
    classifier,     \* background: "loading", "ready" or "failed"
    listener,       \* background: which of the two onMessage listeners is installed
    log             \* hybrid script: what was decided for each node, in order (history)

pureVars == << pc, goalString, videoTitle, coreTopics, blocklist, evaluation >>
timerVars == << elapsed, burst >>
strictVars == << feed, gets, retryTimers, debounceTimer, shorts, lastScan, timerVars >>
hybridVars == << pathname, nodes, calls, classifier, listener, log >>
sysVars == << storedGoal, strictVars, hybridVars >>
vars == << pureVars, sysVars >>

--------------------------------------------------------------------------
(* JavaScript values *)

JsUndefined == [type |-> "undefined", str |-> <<>>]
JsNull == [type |-> "null", str |-> <<>>]
\* a non-zero number, e.g. 42: truthy, and typeof is not 'string'
JsNumber == [type |-> "number", str |-> <<"4", "2">>]
JsString(s) == [type |-> "string", str |-> s]

\* the truth value JavaScript gives `v` in `!v`, `v && ...`, `if (v)`
Truthy(v) ==
    CASE v.type = "string" -> v.str # <<>>
      [] v.type = "number" -> v.str # <<"0">>
      [] OTHER -> FALSE

IsString(v) == v.type = "string"

--------------------------------------------------------------------------
(* Characters and the string methods the code uses *)

UpperChars == <<"A", "B", "C", "D", "E", "F", "G", "H", "I", "J", "K", "L", "M", "N", "O", "P", "Q", "R", "S", "T", "U", "V", "W", "X", "Y", "Z">>
LowerChars == <<"a", "b", "c", "d", "e", "f", "g", "h", "i", "j", "k", "l", "m", "n", "o", "p", "q", "r", "s", "t", "u", "v", "w", "x", "y", "z">>
DigitChars == <<"0", "1", "2", "3", "4", "5", "6", "7", "8", "9">>

Range(f) == { f[i] : i \in DOMAIN f }

\* \s of a regular expression (the members that occur in the inputs)
Whitespace == {" ", "\t", "\n"}

\* \w of a regular expression
WordChars == Range(UpperChars) \cup Range(LowerChars) \cup Range(DigitChars) \cup {"_"}

\* the character class of extractWords' split: [\s\.,!?;:()\[\]{}'"]
ExtractSeparators ==
    Whitespace \cup {".", ",", "!", "?", ";", ":", "(", ")", "[", "]", "{", "}", "'", "\""}

LowerChar(c) ==
    IF \E i \in DOMAIN UpperChars : UpperChars[i] = c
    THEN LowerChars[CHOOSE i \in DOMAIN UpperChars : UpperChars[i] = c]
    ELSE c

\* String.prototype.toLowerCase
toLowerCase(s) == [i \in 1..Len(s) |-> LowerChar(s[i])]

\* String.prototype.trim
trim(s) ==
    LET keep == { i \in 1..Len(s) : s[i] \notin Whitespace }
    IN  IF keep = {} THEN <<>>
        ELSE LET first == CHOOSE i \in keep : \A j \in keep : i <= j
                 last == CHOOSE i \in keep : \A j \in keep : j <= i
             IN  SubSeq(s, first, last)

\* s.replace(/\s+/g, ' '): every maximal run of whitespace becomes one space
RECURSIVE CollapseFrom(_, _, _)
CollapseFrom(s, i, acc) ==
    IF i > Len(s) THEN acc
    ELSE IF s[i] \in Whitespace
         THEN IF i > 1 /\ s[i - 1] \in Whitespace
              THEN CollapseFrom(s, i + 1, acc)
              ELSE CollapseFrom(s, i + 1, Append(acc, " "))
         ELSE CollapseFrom(s, i + 1, Append(acc, s[i]))

collapseWhitespace(s) == CollapseFrom(s, 1, <<>>)

\* s.split(/[seps]+/): the pieces between the maximal runs of separators,
\* with the empty piece JavaScript gives before a leading and after a
\* trailing run, and [""] for the empty string
RECURSIVE SplitFrom(_, _, _, _, _)
SplitFrom(s, seps, i, cur, acc) ==
    IF i > Len(s) THEN Append(acc, cur)
    ELSE IF s[i] \in seps
         THEN IF i > 1 /\ s[i - 1] \in seps
              THEN SplitFrom(s, seps, i + 1, cur, acc)
              ELSE SplitFrom(s, seps, i + 1, <<>>, Append(acc, cur))
         ELSE SplitFrom(s, seps, i + 1, Append(cur, s[i]), acc)

split(s, seps) == SplitFrom(s, seps, 1, <<>>, <<>>)

\* String.prototype.includes
includes(s, sub) ==
    \E i \in 0..(Len(s) - Len(sub)) : SubSeq(s, i + 1, i + Len(sub)) = sub

--------------------------------------------------------------------------
(* Configuration of the strict scoring engine *)

GLOBAL_BLOCKLIST ==
    { <<"s", "h", "o", "r", "t", "s">>, <<"p", "r", "a", "n", "k">>,
      <<"r", "e", "a", "c", "t", "i", "o", "n">>, <<"g", "a", "m", "e", "p", "l", "a", "y">>,
      <<"g", "o", "s", "s", "i", "p">>, <<"m", "e", "m", "e">>,
      <<"v", "i", "r", "a", "l">>, <<"c", "h", "a", "l", "l", "e", "n", "g", "e">> }

STOPWORDS ==
    { <<"i">>, <<"w", "a", "n", "t">>, <<"t", "o">>,
      <<"s", "e", "e">>, <<"s", "h", "o", "w">>, <<"m", "e">>,
      <<"o", "n", "l", "y">>, <<"a", "b", "o", "u", "t">>, <<"v", "i", "d", "e", "o", "s">>,
      <<"t", "h", "e">>, <<"a">>, <<"a", "n">>,
      <<"a", "n", "d">>, <<"o", "r">>, <<"b", "u", "t">>,
      <<"i", "n">>, <<"o", "n">>, <<"a", "t">>,
      <<"f", "o", "r">>, <<"o", "f">>, <<"w", "i", "t", "h">>,
      <<"b", "y">>, <<"f", "r", "o", "m">>, <<"a", "s">>,
      <<"i", "s">>, <<"w", "a", "s">>, <<"a", "r", "e">>,
      <<"w", "e", "r", "e">>, <<"b", "e">>, <<"b", "e", "e", "n">>,
      <<"b", "e", "i", "n", "g">>, <<"h", "a", "v", "e">>, <<"h", "a", "s">>,
      <<"h", "a", "d">>, <<"d", "o">>, <<"d", "o", "e", "s">>,
      <<"d", "i", "d">>, <<"w", "i", "l", "l">>, <<"w", "o", "u", "l", "d">>,
      <<"c", "o", "u", "l", "d">>, <<"s", "h", "o", "u", "l", "d">>, <<"m", "a", "y">>,
      <<"m", "i", "g", "h", "t">>, <<"m", "u", "s", "t">>, <<"c", "a", "n">>,
      <<"l", "e", "a", "r", "n">>, <<"l", "e", "a", "r", "n", "i", "n", "g">>, <<"w", "a", "t", "c", "h">>,
      <<"w", "a", "t", "c", "h", "i", "n", "g">>, <<"l", "o", "o", "k", "i", "n", "g">>, <<"f", "i", "n", "d">>,
      <<"s", "e", "a", "r", "c", "h">>, <<"n", "e", "e", "d">> }

SCORE_RELEVANT == 20
SCORE_BLOCKED == -50

--------------------------------------------------------------------------
(* Utility functions of the strict engine *)

normalizeString(str) ==
    IF ~Truthy(str) \/ ~IsString(str) THEN <<>>
    ELSE collapseWhitespace(trim(toLowerCase(str.str)))

extractWords(text) ==
    IF ~Truthy(text) \/ ~IsString(text) THEN <<>>
    ELSE SelectSeq(split(normalizeString(text), ExtractSeparators),
                   LAMBDA word : Len(word) > 0)

--------------------------------------------------------------------------
(* Smart goal parsing *)

\* IsCoreTopic without the stopword test
IsCoreTopicLengthOnly(word) == Len(word) >= 2

\* the filter of parseUserGoal: word.length >= 2 && !STOPWORDS.has(word)
IsCoreTopic(word) == Len(word) >= 2 /\ word \notin STOPWORDS

\* parseUserGoal filtering the words as typed and lower-casing them
\* afterwards
parseUserGoalFilterFirst(goal) ==
    IF ~Truthy(goal) \/ ~IsString(goal) THEN {}
    ELSE LET typed == SelectSeq(split(collapseWhitespace(trim(goal.str)),
                                      ExtractSeparators),
                                IsCoreTopic)
         IN  { toLowerCase(typed[i]) : i \in DOMAIN typed }

parseUserGoal(goal) ==
    IF ~Truthy(goal) \/ ~IsString(goal) THEN {}
    ELSE Range(SelectSeq(extractWords(goal), IsCoreTopic))

\* coreTopics.forEach(topic => { if (modified.has(topic)) modified.delete(topic) })
RECURSIVE RemoveTopics(_, _)
RemoveTopics(modifiedBlocklist, topics) ==
    IF topics = {} THEN modifiedBlocklist
    ELSE LET topic == CHOOSE t \in topics : TRUE
         IN  RemoveTopics(IF topic \in modifiedBlocklist
                          THEN modifiedBlocklist \ {topic}
                          ELSE modifiedBlocklist,
                          topics \ {topic})

\* applyIntentOverride handing the blocklist back as it is
applyNoOverride(topics, base) == base

applyIntentOverride(topics, base) == RemoveTopics(base, topics)

--------------------------------------------------------------------------
(* Scoring engine (strict mode) *)

\* hasPositiveKeywordMatch matching a topic anywhere in the title text
hasPositiveSubstringMatch(title, topics) ==
    IF ~Truthy(title) \/ topics = {} THEN FALSE
    ELSE \E topic \in topics : includes(normalizeString(title), topic)

hasPositiveKeywordMatch(title, topics) ==
    IF ~Truthy(title) \/ topics = {} THEN FALSE
    ELSE \E i \in DOMAIN extractWords(title) : extractWords(title)[i] \in topics

\* ShouldShowAt with a strict threshold
ShouldShowAbove(score) == score > 0

\* the threshold of the final decision: score >= 0
ShouldShowAt(score) == score >= 0

\* ScoreWords counting a repeated word once
RECURSIVE ScoreDistinctWords(_, _, _, _, _)
ScoreDistinctWords(titleWords, i, topics, blocked, acc) ==
    IF i > Len(titleWords) THEN acc
    ELSE LET word == titleWords[i]
             seen == \E j \in 1..(i - 1) : titleWords[j] = word
             pos == IF ~seen /\ word \in topics THEN 1 ELSE 0
             neg == IF ~seen /\ word \in blocked THEN 1 ELSE 0
         IN  ScoreDistinctWords(titleWords, i + 1, topics, blocked,
                        [score |-> acc.score + pos * SCORE_RELEVANT + neg * SCORE_BLOCKED,
                         positiveMatches |-> acc.positiveMatches + pos,
                         negativeMatches |-> acc.negativeMatches + neg])

\* the loop over titleWords: +20 for a core topic, -50 for a blocklist word
RECURSIVE ScoreWords(_, _, _, _, _)
ScoreWords(titleWords, i, topics, blocked, acc) ==
    IF i > Len(titleWords) THEN acc
    ELSE LET word == titleWords[i]
             pos == IF word \in topics THEN 1 ELSE 0
             neg == IF word \in blocked THEN 1 ELSE 0
         IN  ScoreWords(titleWords, i + 1, topics, blocked,
                        [score |-> acc.score + pos * SCORE_RELEVANT + neg * SCORE_BLOCKED,
                         positiveMatches |-> acc.positiveMatches + pos,
                         negativeMatches |-> acc.negativeMatches + neg])

\* the object returned on the two early returns carries no match counts;
\* they are 0 here
Rejected ==
    [shouldShow |-> FALSE, score |-> SCORE_BLOCKED, hasPositiveMatch |-> FALSE,
     positiveMatches |-> 0, negativeMatches |-> 0]

evaluateVideo(title, topics, blocked) ==
    IF ~Truthy(title) \/ ~IsString(title) THEN Rejected
    ELSE IF ~hasPositiveKeywordMatch(title, topics) THEN Rejected
    ELSE LET counted == ScoreWords(extractWords(title), 1, topics, blocked,
                                   [score |-> 0, positiveMatches |-> 0,
                                    negativeMatches |-> 0])
         IN  [shouldShow |-> ShouldShowAt(counted.score),
              score |-> counted.score,
              hasPositiveMatch |-> TRUE,
              positiveMatches |-> counted.positiveMatches,
              negativeMatches |-> counted.negativeMatches]

--------------------------------------------------------------------------
(* Inputs: words, and the phrases built from them *)

w_I == <<"I">>
w_want == <<"w", "a", "n", "t">>
w_to == <<"t", "o">>
w_learn == <<"l", "e", "a", "r", "n">>
w_see == <<"s", "e", "e">>
w_show == <<"s", "h", "o", "w">>
w_Show == <<"S", "h", "o", "w">>
w_me == <<"m", "e">>
w_Python == <<"P", "y", "t", "h", "o", "n">>
w_python == <<"p", "y", "t", "h", "o", "n">>
w_pythonBang == <<"p", "y", "t", "h", "o", "n", "!">>
w_meme == <<"m", "e", "m", "e">>
w_Memes == <<"M", "e", "m", "e", "s">>
w_memes == <<"m", "e", "m", "e", "s">>
w_fun == <<"f", "u", "n">>
w_PRANK == <<"(", "P", "R", "A", "N", "K", ")">>
w_prankVideos == <<"p", "r", "a", "n", "k", "-", "v", "i", "d", "e", "o", "s">>
w_c == <<"c">>
w_Viral == <<"V", "i", "r", "a", "l", ",">>

\* the words of `ws` with one space between them
RECURSIVE Phrase(_)
Phrase(ws) ==
    IF Len(ws) = 0 THEN <<>>
    ELSE IF Len(ws) = 1 THEN ws[1]
    ELSE ws[1] \o <<" ">> \o Phrase(Tail(ws))

\* every sequence of at most n members of V
SeqsUpTo(V, n) == UNION { [1..k -> V] : k \in 0..n }

\* bounds of the inputs
MaxTitleWords == 3
MaxLongTitleWords == 7
MaxGoalWords == 3

TitleWords == { w_Python, w_pythonBang, w_meme, w_Memes, w_fun, w_PRANK }
LongTitleWords == { w_python, w_meme }

\* titles: no title, the empty string, a value that is no string, every
\* phrase of up to MaxTitleWords of TitleWords, and the longer phrases of
\* LongTitleWords
EvalTitles ==
    { JsNull, JsNumber }
    \cup { JsString(Phrase(ws)) : ws \in SeqsUpTo(TitleWords, MaxTitleWords) }
    \cup { JsString(Phrase(ws)) : ws \in SeqsUpTo(LongTitleWords, MaxLongTitleWords) }

g_learnPython == Phrase(<< w_I, w_want, w_to, w_learn, w_Python >>)
g_showMemes == Phrase(<< w_show, w_me, w_memes >>)
g_pythonMeme == Phrase(<< w_python, w_meme >>)
g_wantToSee == Phrase(<< w_I, w_want, w_to, w_see >>)

EvalCores ==
    { parseUserGoal(JsString(g)) :
        g \in { g_learnPython, g_showMemes, g_pythonMeme, g_wantToSee } }

\* the blocklists evaluateVideo is tried with: none, the base one, and the
\* one filterVideos derives for the core topics
EvalBlocklists(topics) ==
    { {}, GLOBAL_BLOCKLIST, applyIntentOverride(topics, GLOBAL_BLOCKLIST) }

GoalWords ==
    { w_I, w_want, w_see, w_Show, w_Python, w_memes, w_meme, w_c, w_Viral,
      w_prankVideos }

\* goals: absent, no string, empty, blank, and every phrase of up to
\* MaxGoalWords of GoalWords, bare and padded with whitespace
GoalInputs ==
    { JsUndefined, JsNull, JsNumber, JsString(<<" ", "\t", " ">>) }
    \cup { JsString(Phrase(ws)) : ws \in SeqsUpTo(GoalWords, MaxGoalWords) }
    \cup { JsString(<<" ">> \o Phrase(ws) \o <<" ", " ">>) :
             ws \in SeqsUpTo(GoalWords, 1) }

NoEvaluation ==
    [shouldShow |-> FALSE, score |-> 0, hasPositiveMatch |-> FALSE,
     positiveMatches |-> 0, negativeMatches |-> 0]

--------------------------------------------------------------------------
(* The scoring engine on its own: evaluateVideo applied to an input *)

\* the hybrid script and the background are not running
HybridIdle ==
    /\ pathname = "/"
    /\ nodes = << >>
    /\ calls = << >>
    /\ classifier = "loading"
    /\ listener = "none"
    /\ log = << >>

\* no time has passed and no notification was seen
TimersIdle ==
    /\ elapsed = 0
    /\ burst = 0

\* the scripts are not running
SystemIdle ==
    /\ storedGoal = JsUndefined
    /\ TimersIdle
    /\ feed = << >>
    /\ gets = << >>
    /\ retryTimers = << >>
    /\ debounceTimer = FALSE
    /\ shorts = "absent"
    /\ lastScan = << >>
    /\ HybridIdle

\* the pure-function harness is not running
PureIdle ==
    /\ pc = "idle"
    /\ goalString = JsUndefined
    /\ videoTitle = JsNull
    /\ coreTopics = {}
    /\ blocklist = {}
    /\ evaluation = NoEvaluation

InitEval ==
    /\ SystemIdle
    /\ pc = "ready"
    /\ goalString = JsUndefined
    /\ videoTitle \in EvalTitles
    /\ coreTopics \in EvalCores
    /\ blocklist \in EvalBlocklists(coreTopics)
    /\ evaluation = NoEvaluation

CallEvaluateVideo ==
    /\ pc = "ready"
    /\ evaluation' = evaluateVideo(videoTitle, coreTopics, blocklist)
    /\ pc' = "evaluated"
    /\ UNCHANGED << goalString, videoTitle, coreTopics, blocklist, sysVars >>

\* evaluateVideo is called again for the title with a word of the blocklist
\* appended to it
CallEvaluateVideoAppended ==
    /\ pc = "evaluated"
    /\ IsString(videoTitle)
    /\ \E token \in blocklist :
          /\ videoTitle' = JsString(videoTitle.str \o << " " >> \o token)
          /\ evaluation' = evaluateVideo(videoTitle', coreTopics, blocklist)
    /\ pc' = "appended"
    /\ UNCHANGED << goalString, coreTopics, blocklist, sysVars >>

NextEval == CallEvaluateVideo \/ CallEvaluateVideoAppended

SpecEval == InitEval /\ [][NextEval]_vars

--------------------------------------------------------------------------
(* The goal parser and the intent override on their own, in the order     *)
(* filterVideos calls them                                                 *)

InitGoal ==
    /\ SystemIdle
    /\ pc = "ready"
    /\ goalString \in GoalInputs
    /\ videoTitle = JsNull
    /\ coreTopics = {}
    /\ blocklist = GLOBAL_BLOCKLIST
    /\ evaluation = NoEvaluation

CallParseUserGoal ==
    /\ pc = "ready"
    /\ coreTopics' = parseUserGoal(goalString)
    /\ pc' = "parsed"
    /\ UNCHANGED << goalString, videoTitle, blocklist, evaluation, sysVars >>

\* an override that deletes the topics from the blocklist it is given: the
\* next call starts from what the last one left
CallApplyIntentOverrideInPlace ==
    /\ pc = "parsed"
    /\ blocklist' = applyIntentOverride(coreTopics, blocklist)
    /\ pc' = "overridden"
    /\ UNCHANGED << goalString, videoTitle, coreTopics, evaluation, sysVars >>

CallApplyIntentOverride ==
    /\ pc = "parsed"
    /\ blocklist' = applyIntentOverride(coreTopics, GLOBAL_BLOCKLIST)
    /\ pc' = "overridden"
    /\ UNCHANGED << goalString, videoTitle, coreTopics, evaluation, sysVars >>

\* the members of the set S in every order
Orders(S) == { order \in [1..Cardinality(S) -> S] : Range(order) = S }

\* the parsed topics, joined with spaces in some order, are parsed again
CallParseUserGoalAgain ==
    /\ pc = "parsed"
    /\ \E order \in Orders(coreTopics) :
          /\ goalString' = JsString(Phrase(order))
          /\ coreTopics' = parseUserGoal(goalString')
    /\ pc' = "reparsed"
    /\ UNCHANGED << videoTitle, blocklist, evaluation, sysVars >>

\* the goals a later scan may read
LaterGoals == { JsString(g_learnPython), JsString(g_pythonMeme), JsString(g_wantToSee) }

\* a later scan reads another goal; the topics and the active blocklist of
\* the scan before are still around
NextScanReadsGoal ==
    /\ pc = "overridden"
    /\ goalString' \in LaterGoals
    /\ pc' = "ready"
    /\ UNCHANGED << videoTitle, coreTopics, blocklist, evaluation, sysVars >>

NextGoal ==
    \/ CallParseUserGoal
    \/ CallApplyIntentOverride
    \/ CallParseUserGoalAgain
    \/ NextScanReadsGoal

SpecGoal == InitGoal /\ [][NextGoal]_vars

--------------------------------------------------------------------------
(* Properties of the scoring engine (SpecEval) *)

\* the words of the title under evaluation, as extractWords gives them
TitleTokens == extractWords(videoTitle)

\* how many words of `words` (repeats counted) are members of S
Occurrences(words, S) == Cardinality({ i \in DOMAIN words : words[i] \in S })

PassesGate == \E i \in DOMAIN TitleTokens : TitleTokens[i] \in coreTopics

\* C1: a title none of whose tokens is a core topic is rejected with
\* shouldShow = false, score = SCORE_BLOCKED and hasPositiveMatch = false,
\* whatever the blocklist holds
C1_StrictGate ==
    (pc = "evaluated" /\ ~PassesGate) =>
        /\ evaluation.shouldShow = FALSE
        /\ evaluation.score = SCORE_BLOCKED
        /\ evaluation.hasPositiveMatch = FALSE

\* a title with words, among them a blocklist word but no core topic, is
\* rejected under an empty blocklist
C1_Witness ==
    /\ pc = "evaluated"
    /\ ~PassesGate
    /\ coreTopics # {}
    /\ blocklist = {}
    /\ Occurrences(TitleTokens, GLOBAL_BLOCKLIST) > 0
    /\ evaluation.score = SCORE_BLOCKED

\* C2: a title that passes the gate scores 20 for each occurrence of a core
\* topic and -50 for each occurrence of a blocklist word
C2_ScoreFormula ==
    (pc = "evaluated" /\ PassesGate) =>
        evaluation.score =
            20 * Occurrences(TitleTokens, coreTopics)
            - 50 * Occurrences(TitleTokens, blocklist)

\* a core topic occurs twice and a blocklist word once: 40 - 50
C2_Witness ==
    /\ pc = "evaluated"
    /\ Occurrences(TitleTokens, coreTopics) = 2
    /\ Cardinality({ TitleTokens[i] : i \in DOMAIN TitleTokens } \cap coreTopics) = 1
    /\ Occurrences(TitleTokens, blocklist) = 1
    /\ evaluation.score = -10

\* C3: a title that passes the gate is shown exactly when its score is >= 0
C3_Threshold ==
    (pc = "evaluated" /\ PassesGate) =>
        (evaluation.shouldShow <=> evaluation.score >= 0)

\* five core-topic words and two blocklist words: score 0, shown
C3_Witness ==
    /\ pc = "evaluated"
    /\ Occurrences(TitleTokens, coreTopics) = 5
    /\ Occurrences(TitleTokens, blocklist) = 2
    /\ evaluation.score = 0
    /\ evaluation.shouldShow

\* the blocklist is the one filterVideos derives for the core topics
ActiveBlocklist == blocklist = applyIntentOverride(coreTopics, GLOBAL_BLOCKLIST)

\* C23: under the active blocklist of the core topics, the score of a title
\* with a word of that blocklist appended is never greater than the score of
\* the title, whether the title passes the gate or not
C23_ScoreSymmetry ==
    [][(pc' = "appended" /\ ActiveBlocklist) =>
            evaluation'.score <= evaluation.score]_vars

\* a title that passes the gate with two core topics has lost 50 points to
\* the appended word, under a blocklist the override took a word from
C23_Witness ==
    /\ pc = "appended"
    /\ ActiveBlocklist
    /\ blocklist # GLOBAL_BLOCKLIST
    /\ PassesGate
    /\ evaluation.positiveMatches = 2
    /\ evaluation.negativeMatches = 1
    /\ evaluation.score = -10

--------------------------------------------------------------------------
(* Properties of the goal parser and the intent override (SpecGoal) *)

Alphanumeric == Range(UpperChars) \cup Range(LowerChars) \cup Range(DigitChars)

\* the word w occurs in the text s as a whole word, in any letter case:
\* neither preceded nor followed by a letter or a digit
AppearsAsWord(w, s) ==
    LET low == toLowerCase(s)
    IN  \E i \in 0..(Len(low) - Len(w)) :
            /\ SubSeq(low, i + 1, i + Len(w)) = w
            /\ i = 0 \/ low[i] \notin Alphanumeric
            /\ i + Len(w) = Len(low) \/ low[i + Len(w) + 1] \notin Alphanumeric

\* C4: the active blocklist is a subset of the base blocklist, is disjoint
\* from the core topics, and holds no base-blocklist word that appears in
\* the goal
C4_IntentOverride ==
    pc = "overridden" =>
        /\ blocklist \subseteq GLOBAL_BLOCKLIST
        /\ blocklist \cap coreTopics = {}
        /\ \A w \in GLOBAL_BLOCKLIST :
              (IsString(goalString) /\ AppearsAsWord(w, goalString.str))
                  => w \notin blocklist

\* every word of the goal is a stopword
StopwordOnly(goal) ==
    \A i \in DOMAIN extractWords(goal) : extractWords(goal)[i] \in STOPWORDS

\* C6: the parsed set holds no stopword and no token shorter than 2
\* characters, and is empty for an input that is no string, is empty or
\* holds only stopwords
C6_ParserOutput ==
    pc \in {"parsed", "overridden"} =>
        /\ \A topic \in coreTopics : topic \notin STOPWORDS /\ Len(topic) >= 2
        /\ (~IsString(goalString) \/ goalString.str = <<>> \/ StopwordOnly(goalString))
              => coreTopics = {}

\* a goal with a stopword, a one-letter word and a topic has been parsed
C6_Witness ==
    /\ pc = "parsed"
    /\ \E i \in DOMAIN extractWords(goalString) :
          extractWords(goalString)[i] \in STOPWORDS
    /\ \E i \in DOMAIN extractWords(goalString) :
          Len(extractWords(goalString)[i]) = 1
          /\ extractWords(goalString)[i] \notin STOPWORDS
    /\ coreTopics # {}

\* C22: parsing the topics of a goal, joined with spaces in any order,
\* gives the same set of topics again
C22_ParserIdempotent ==
    [][pc' = "reparsed" => coreTopics' = coreTopics]_vars

\* the two topics of a goal, joined as "python meme", were parsed again
C22_Witness ==
    /\ pc = "reparsed"
    /\ goalString = JsString(g_pythonMeme)
    /\ coreTopics = { w_python, w_meme }

\* C26: the override leaves the core topics as they are and gives the base
\* blocklist without the core topics of the goal just parsed, whatever the
\* goals before it were and whatever they removed
C26_Recomputed ==
    [][pc' = "overridden" =>
            /\ coreTopics' = coreTopics
            /\ coreTopics' = parseUserGoal(goalString')
            /\ blocklist' = GLOBAL_BLOCKLIST \ coreTopics']_vars

\* a later scan, whose goal mentions no word of the blocklist, has the
\* whole base blocklist, "meme" included (a goal read only by a later scan)
C26_Witness ==
    /\ pc = "overridden"
    /\ goalString = JsString(g_learnPython)
    /\ w_meme \in blocklist
    /\ blocklist = GLOBAL_BLOCKLIST

--------------------------------------------------------------------------
(* The popup: the only writer of the stored goal *)

\* input.replace(/<[^>]*>/g, ''): a "<" is removed together with everything
\* up to the next ">"; a "<" with no ">" after it stays
RECURSIVE RemoveTagsFrom(_, _, _)
RemoveTagsFrom(s, i, acc) ==
    IF i > Len(s) THEN acc
    ELSE IF s[i] = "<" /\ \E j \in (i + 1)..Len(s) : s[j] = ">"
         THEN LET close == CHOOSE j \in (i + 1)..Len(s) :
                              /\ s[j] = ">"
                              /\ \A k \in (i + 1)..(j - 1) : s[k] # ">"
              IN  RemoveTagsFrom(s, close + 1, acc)
         ELSE RemoveTagsFrom(s, i + 1, Append(acc, s[i]))

sanitizeInput(input) ==
    IF ~Truthy(input) \/ ~IsString(input) THEN <<>>
    ELSE trim(SelectSeq(RemoveTagsFrom(input.str, 1, <<>>),
                        LAMBDA c : c \notin {"<", ">", "\"", "'"}))

--------------------------------------------------------------------------
(* The strict content script: tag & hide, filterVideos, the debounced      *)
(* observer                                                                *)

MAX_RETRIES == 3

\* bounds: the feed elements, and the scans under way at once (a storage
\* read not yet answered, or a retry timer)
NumItems == 2
MaxScans == 2

Items == 1..NumItems

w_Tutorial == <<"T", "u", "t", "o", "r", "i", "a", "l">>
w_Epic == <<"E", "p", "i", "c">>
w_Gaming == <<"G", "a", "m", "i", "n", "g">>
w_Fails == <<"F", "a", "i", "l", "s">>
w_prank == <<"p", "r", "a", "n", "k">>
w_b1 == <<"<", "b", ">">>
w_b2 == <<"<", "/", "b", ">">>

t_pythonTutorial == Phrase(<< w_Python, w_Tutorial >>)
t_gamingFails == Phrase(<< w_Epic, w_Gaming, w_Fails >>)
t_pythonPrank == Phrase(<< w_Python, w_prank >>)
t_memes == Phrase(<< w_Memes, w_fun >>)

\* the title YouTube renders into each element, when it renders one
FeedTitles == << t_pythonTutorial, t_gamingFails, t_pythonPrank, t_memes >>

TitleOf(i) == JsString(FeedTitles[((i - 1) % Len(FeedTitles)) + 1])

\* what the storage may hold when the script starts
InitialGoals ==
    { JsUndefined, JsString(<<>>), JsString(<<" ", " ">>),
      JsString(g_learnPython) }

\* what the user types into the popup
PopupInputs ==
    { JsString(g_wantToSee), JsString(<<" ">> \o g_showMemes),
      JsString(w_b1 \o g_learnPython \o w_b2), JsString(w_b1 \o w_b2) }

\* an element: present in the document or not, its title text (JsNull
\* while YouTube has not rendered one), and its classes focus-checked and
\* focus-hidden.  focus-blur is never added by the script and is left out.
NoElement == [present |-> FALSE, title |-> JsNull, checked |-> FALSE, hidden |-> FALSE]

isElementProcessed(element) == element.checked

\* hideVideoElement adding focus-hidden only
hideWithoutChecked(element) == [element EXCEPT !.hidden = TRUE]

hideVideoElement(element) == [element EXCEPT !.checked = TRUE, !.hidden = TRUE]

showVideoElement(element) == [element EXCEPT !.checked = TRUE, !.hidden = FALSE]

\* resetVideoElement leaving focus-checked in place
resetHiddenOnly(element) == [element EXCEPT !.hidden = FALSE]

resetVideoElement(element) == [element EXCEPT !.checked = FALSE, !.hidden = FALSE]

\* the trimmed text of the title element, null when there is none
extractVideoTitle(container) ==
    IF IsString(container.title) /\ Len(trim(container.title.str)) > 0
    THEN JsString(trim(container.title.str))
    ELSE JsNull

\* document.querySelectorAll('ytd-rich-item-renderer')
videoContainers == { i \in Items : feed[i].present }

\* the body of the forEach without its test of focus-checked
FilterContainerAlways(container, topics, active) ==
    LET titleText == extractVideoTitle(container)
    IN  IF ~Truthy(titleText) THEN hideVideoElement(container)
        ELSE IF ~evaluateVideo(titleText, topics, active).shouldShow
             THEN hideVideoElement(container)
             ELSE showVideoElement(container)

\* the body of the forEach showing an element that has no title
FilterContainerShowUntitled(container, topics, active) ==
    IF isElementProcessed(container) THEN container
    ELSE LET titleText == extractVideoTitle(container)
         IN  IF ~Truthy(titleText) THEN showVideoElement(container)
             ELSE IF ~evaluateVideo(titleText, topics, active).shouldShow
                  THEN hideVideoElement(container)
                  ELSE showVideoElement(container)

\* the body of videoContainers.forEach in filterVideos
FilterContainer(container, topics, active) ==
    IF isElementProcessed(container) THEN container
    ELSE LET titleText == extractVideoTitle(container)
         IN  IF ~Truthy(titleText) THEN hideVideoElement(container)
             ELSE IF ~evaluateVideo(titleText, topics, active).shouldShow
                  THEN hideVideoElement(container)
                  ELSE showVideoElement(container)

\* the containers whose title the scan hands to evaluateVideo
EvaluatedBy(topics) ==
    { i \in videoContainers :
        ~isElementProcessed(feed[i]) /\ Truthy(extractVideoTitle(feed[i])) }

ResetAll == [i \in Items |-> IF i \in videoContainers
                             THEN resetVideoElement(feed[i]) ELSE feed[i]]

\* the branches with a retry while retryCount <= MAX_RETRIES
ScanPathRetryInclusive(userGoal, retryCount) ==
    IF ~Truthy(userGoal) \/ ~IsString(userGoal) \/ Len(trim(userGoal.str)) = 0
    THEN "noGoal"
    ELSE IF parseUserGoal(userGoal) = {} THEN "noTopics"
    ELSE IF videoContainers = {} /\ retryCount <= MAX_RETRIES THEN "retry"
    ELSE IF videoContainers = {} THEN "gaveUp"
    ELSE "filtered"

\* the branch the callback of filterVideos takes for the goal it was given
ScanPath(userGoal, retryCount) ==
    IF ~Truthy(userGoal) \/ ~IsString(userGoal) \/ Len(trim(userGoal.str)) = 0
    THEN "noGoal"
    ELSE IF parseUserGoal(userGoal) = {} THEN "noTopics"
    ELSE IF videoContainers = {} /\ retryCount < MAX_RETRIES THEN "retry"
    ELSE IF videoContainers = {} THEN "gaveUp"
    ELSE "filtered"

NoScan == [path |-> "none", goal |-> JsUndefined, retryCount |-> 0,
           hiddenBefore |-> {}, evaluated |-> {}]

ScansUnderWay == Len(gets) + Len(retryTimers)

\* filterVideos(retryCount): chrome.storage.local.get(['focusGoal'], callback)
FilterVideosCall(retryCount) == gets' = Append(gets, retryCount)

\* removeShorts()
removeShorts == IF shorts = "visible" THEN "hidden" ELSE shorts

\* the state once the script's top level has run: styles injected,
\* applyFilters() called (the Shorts link hidden if there is one, the goal
\* requested), the observer installed
InitStrict ==
    /\ PureIdle
    /\ storedGoal \in InitialGoals
    /\ feed \in [Items -> { NoElement } ]
    /\ gets = << 0 >>
    /\ retryTimers = << >>
    /\ debounceTimer = FALSE
    /\ shorts \in { "absent", "hidden" }
    /\ lastScan = NoScan
    /\ TimersIdle
    /\ HybridIdle

\* the MutationObserver callback: debouncedApplyFilters() clears the
\* timeout and sets it again
ObserverCallback == debounceTimer' = TRUE

\* YouTube adds a feed element, with its title or before rendering it
YouTubeAddsItem(i) ==
    /\ ~feed[i].present
    /\ \E title \in { JsNull, TitleOf(i) } :
          feed' = [feed EXCEPT ![i] = [NoElement EXCEPT !.present = TRUE,
                                                       !.title = title]]
    /\ ObserverCallback
    /\ lastScan' = NoScan
    /\ UNCHANGED << pureVars, hybridVars, storedGoal, gets, retryTimers, shorts >>

\* YouTube renders the title of an element it added without one
YouTubeRendersTitle(i) ==
    /\ feed[i].present
    /\ feed[i].title = JsNull
    /\ feed' = [feed EXCEPT ![i].title = TitleOf(i)]
    /\ ObserverCallback
    /\ lastScan' = NoScan
    /\ UNCHANGED << pureVars, hybridVars, storedGoal, gets, retryTimers, shorts >>

\* YouTube renders the Shorts link
YouTubeAddsShorts ==
    /\ shorts = "absent"
    /\ shorts' = "visible"
    /\ ObserverCallback
    /\ lastScan' = NoScan
    /\ UNCHANGED << pureVars, hybridVars, storedGoal, feed, gets, retryTimers >>

\* the debounce timeout fires: applyFilters()
DebounceFires ==
    /\ debounceTimer
    /\ ScansUnderWay < MaxScans
    /\ debounceTimer' = FALSE
    /\ shorts' = removeShorts
    /\ FilterVideosCall(0)
    /\ lastScan' = NoScan
    /\ UNCHANGED << pureVars, hybridVars, storedGoal, feed, retryTimers >>

\* a retry timeout fires: filterVideos(retryCount + 1)
RetryFires ==
    /\ retryTimers # << >>
    /\ FilterVideosCall(Head(retryTimers))
    /\ retryTimers' = Tail(retryTimers)
    /\ lastScan' = NoScan
    /\ UNCHANGED << pureVars, hybridVars, storedGoal, feed, debounceTimer, shorts >>

\* the callback of filterVideos under an observer that watches attributes
\* too: a change of the classes of an element calls debouncedApplyFilters()
FilterVideosCallbackObserved ==
    /\ gets # << >>
    /\ LET retryCount == Head(gets)
           userGoal == storedGoal
           path == ScanPath(userGoal, retryCount)
           topics == parseUserGoal(userGoal)
           active == applyIntentOverride(topics, GLOBAL_BLOCKLIST)
       IN  /\ feed' =
                CASE path \in { "noGoal", "noTopics" } -> ResetAll
                  [] path = "filtered" ->
                        [i \in Items |->
                            IF i \in videoContainers
                            THEN FilterContainer(feed[i], topics, active)
                            ELSE feed[i]]
                  [] OTHER -> feed
           /\ retryTimers' =
                IF path = "retry" THEN Append(retryTimers, retryCount + 1)
                ELSE retryTimers
           /\ lastScan' =
                [path |-> path, goal |-> userGoal, retryCount |-> retryCount,
                 hiddenBefore |-> { i \in videoContainers : feed[i].hidden },
                 evaluated |-> IF path = "filtered" THEN EvaluatedBy(topics) ELSE {}]
    /\ gets' = Tail(gets)
    /\ debounceTimer' = (debounceTimer \/ feed' # feed)
    /\ UNCHANGED << pureVars, hybridVars, storedGoal, shorts >>

\* the callback of chrome.storage.local.get in filterVideos; the value read
\* is the one stored when the callback is delivered
FilterVideosCallback ==
    /\ gets # << >>
    /\ LET retryCount == Head(gets)
           userGoal == storedGoal
           path == ScanPath(userGoal, retryCount)
           topics == parseUserGoal(userGoal)
           active == applyIntentOverride(topics, GLOBAL_BLOCKLIST)
       IN  /\ feed' =
                CASE path \in { "noGoal", "noTopics" } -> ResetAll
                  [] path = "filtered" ->
                        [i \in Items |->
                            IF i \in videoContainers
                            THEN FilterContainer(feed[i], topics, active)
                            ELSE feed[i]]
                  [] OTHER -> feed
           /\ retryTimers' =
                IF path = "retry" THEN Append(retryTimers, retryCount + 1)
                ELSE retryTimers
           /\ lastScan' =
                [path |-> path, goal |-> userGoal, retryCount |-> retryCount,
                 hiddenBefore |-> { i \in videoContainers : feed[i].hidden },
                 evaluated |-> IF path = "filtered" THEN EvaluatedBy(topics) ELSE {}]
    /\ gets' = Tail(gets)
    /\ UNCHANGED << pureVars, hybridVars, storedGoal, debounceTimer, shorts >>

\* the user saves a goal in the popup: saveFocusGoal()
SaveFocusGoal ==
    /\ \E rawInput \in PopupInputs :
          LET sanitizedGoal == sanitizeInput(rawInput)
          IN  storedGoal' = IF Len(sanitizedGoal) = 0 THEN storedGoal
                            ELSE JsString(sanitizedGoal)
    /\ lastScan' = NoScan
    /\ UNCHANGED << pureVars, hybridVars, feed, gets, retryTimers, debounceTimer, shorts >>

\* the steps of the strict script with the passing of time left out: the
\* debounce timeout may fire at any moment after it was set
NextStrict ==
    /\ \/ \E i \in Items : YouTubeAddsItem(i)
       \/ \E i \in Items : YouTubeRendersTitle(i)
       \/ YouTubeAddsShorts
       \/ DebounceFires
       \/ RetryFires
       \/ FilterVideosCallback
       \/ SaveFocusGoal
    /\ UNCHANGED timerVars

SpecStrict == InitStrict /\ [][NextStrict]_vars

--------------------------------------------------------------------------
(* Properties of the strict content script (SpecStrict) *)

\* the goal is absent, is no string, is empty or blank, or yields no core
\* topic
PassThroughGoal(goal) ==
    \/ ~IsString(goal)
    \/ \A k \in DOMAIN goal.str : goal.str[k] \in Whitespace
    \/ parseUserGoal(goal) = {}

\* C7: a scan that reads a pass-through goal leaves every element of the
\* feed without focus-checked and without focus-hidden, and hands no title
\* to evaluateVideo
C7_PassThrough ==
    (lastScan.path # "none" /\ PassThroughGoal(lastScan.goal)) =>
        /\ \A i \in videoContainers : ~feed[i].checked /\ ~feed[i].hidden
        /\ lastScan.evaluated = {}

\* a scan under a stopword-only goal has made visible an element that an
\* earlier scan had hidden
C7_Witness ==
    /\ lastScan.path = "noTopics"
    /\ Truthy(lastScan.goal)
    /\ lastScan.hiddenBefore # {}
    /\ \A i \in videoContainers : ~feed[i].checked /\ ~feed[i].hidden

--------------------------------------------------------------------------
(* The hybrid content script: blacklist, goal keywords, then the           *)
(* classifier in the background, with a timeout                            *)

BLACKLIST ==
    << <<"M", "i", "x", " ", "-">>, <<"M", "u", "s", "i", "c">>,
       <<"S", "o", "n", "g">>, <<"L", "y", "r", "i", "c", "s">>,
       <<"L", "i", "v", "e">>, <<"O", "f", "f", "i", "c", "i", "a", "l">>,
       <<"S", "h", "o", "r", "t", "s">>, <<"G", "a", "m", "e", "p", "l", "a", "y">>,
       <<"R", "e", "a", "c", "t">>, <<"P", "r", "a", "n", "k">>,
       <<"A", "S", "M", "R">>, <<"v", "s">>,
       <<"T", "r", "a", "i", "l", "e", "r">> >>

STOP_WORDS ==
    << <<"i">>, <<"w", "a", "n", "t">>, <<"t", "o">>,
       <<"l", "e", "a", "r", "n">>, <<"h", "o", "w">>, <<"a", "b", "o", "u", "t">>,
       <<"t", "h", "e">>, <<"a", "n", "d">>, <<"f", "o", "r">>,
       <<"i", "n">>, <<"o", "n">>, <<"w", "i", "t", "h">>,
       <<"b", "e", "s", "t">>, <<"t", "o", "p">>, <<"w", "h", "a", "t">>,
       <<"i", "s">>, <<"a">>, <<"a", "n">>,
       <<"m", "a", "k", "e">>, <<"d", "o">>, <<"g", "e", "t">>,
       <<"w", "a", "t", "c", "h">>, <<"v", "i", "d", "e", "o">>, <<"t", "u", "t", "o", "r", "i", "a", "l">>,
       <<"g", "u", "i", "d", "e">>, <<"c", "o", "m", "p", "l", "e", "t", "e">>, <<"b", "e", "g", "i", "n", "n", "e", "r">>,
       <<"a", "d", "v", "a", "n", "c", "e", "d">>, <<"c", "o", "u", "r", "s", "e">>, <<"f", "u", "l", "l">> >>

\* the distraction labels of the zero-tolerance listener
DistractionLabels ==
    << <<"g", "a", "m", "i", "n", "g">>, <<"a", "n", "i", "m", "e">>,
       <<"m", "u", "s", "i", "c", " ", "v", "i", "d", "e", "o">>, <<"e", "n", "t", "e", "r", "t", "a", "i", "n", "m", "e", "n", "t">>,
       <<"v", "l", "o", "g">>, <<"c", "o", "m", "e", "d", "y">>,
       <<"m", "o", "v", "i", "e">> >>

l_Relevant == <<"R", "e", "l", "e", "v", "a", "n", "t">>
l_Distraction == <<"D", "i", "s", "t", "r", "a", "c", "t", "i", "o", "n">>

\* bound: the feed elements of the hybrid script
NumNodes == 1

\* the elements of the page the script runs on
Nodes == DOMAIN nodes

w_Music == <<"M", "u", "s", "i", "c">>
w_theory == <<"t", "h", "e", "o", "r", "y">>
w_lesson == <<"l", "e", "s", "s", "o", "n">>
w_Cute == <<"C", "u", "t", "e">>
w_cats == <<"c", "a", "t", "s">>

t_musicTheory == Phrase(<< w_Music, w_theory, w_lesson >>)
t_cuteCats == Phrase(<< w_Cute, w_cats >>)

\* the titles YouTube renders
NodeTitles == { JsString(t_musicTheory), JsString(t_cuteCats), JsString(t_pythonTutorial) }

g_wantToLearn == Phrase(<< w_I, w_want, w_to, w_learn >>)
g_musicTheory == Phrase(<< w_Music, w_theory >>)

InitialGoalsHybrid ==
    { JsUndefined, JsString(<<>>), JsString(g_wantToLearn), JsString(g_learnPython) }

PopupInputsHybrid == { JsString(g_musicTheory), JsString(g_wantToLearn), JsString(w_Gaming) }

\* an element: present or not, its title text (JsNull while there is
\* none), the attribute data-focus-processed ("none": not set), and the
\* inline styles display ("": not set) and opacity
NoNode ==
    [present |-> FALSE, title |-> JsNull, processed |-> "none",
     display |-> "", opacity |-> ""]

\* the text of #video-title, trimmed; null when it is missing or blank
\* (the elements have no a#video-title-link and no a[aria-label] to fall
\* back on)
getVideoTitle(node) ==
    IF IsString(node.title) /\ Len(trim(node.title.str)) > 0
    THEN JsString(trim(node.title.str))
    ELSE JsNull

getDynamicKeywords(goalPhrase) ==
    IF ~Truthy(goalPhrase) THEN <<>>
    ELSE SelectSeq(
            split(SelectSeq(toLowerCase(goalPhrase.str),
                            LAMBDA c : c \in WordChars \cup Whitespace),
                  Whitespace),
            LAMBDA w : w \notin Range(STOP_WORDS) /\ Len(w) > 2)

\* BLACKLIST.some(w => title.includes(w))
Blacklisted(title) == \E k \in DOMAIN BLACKLIST : includes(title, BLACKLIST[k])

\* userKeywords.some(keyword => lowerTitle.includes(keyword))
MatchesGoal(title, focusGoal) ==
    LET userKeywords == getDynamicKeywords(focusGoal)
        lowerTitle == toLowerCase(title)
    IN  \E k \in DOMAIN userKeywords : includes(lowerTitle, userKeywords[k])

\* the response handed to the callback of chrome.runtime.sendMessage:
\* undefined, or an object that may own a property shouldShow
NoResponse == [defined |-> FALSE, hasShouldShow |-> FALSE, shouldShow |-> FALSE]
Response(show) == [defined |-> TRUE, hasShouldShow |-> TRUE, shouldShow |-> show]

\* the value the classifier call of the listener resolved with (or that it
\* threw); kind "none" while it has not settled
NoResult == [kind |-> "none", top |-> << >>]

\* a processVideo call suspended at its await or waiting for the
\* classifier: its locals, the state of its timer, where its message is,
\* and the `result` of the listener that serves it
NewCall(title) ==
    [title |-> title, stage |-> "storage", focusGoal |-> JsUndefined,
     isTimedOut |-> FALSE, timer |-> "unset", msg |-> "none",
     result |-> NoResult, response |-> NoResponse, failure |-> "none"]

\* an entry of the log of a node: what processVideo did to it ("blacklist",
\* "noGoal", "keyword", "timeout" and "response" write the node; "request"
\* sends the message; "late" is a response dropped after the timeout), the
\* verdict it carried, the failure behind it and the goal it was made for
Event(what, show, failure, goal) ==
    [e |-> what, show |-> show, failure |-> failure, goal |-> goal]

RemoveAt(seq, k) == SubSeq(seq, 1, k - 1) \o SubSeq(seq, k + 1, Len(seq))

\* the part of processVideo before its await
StartPath(node) ==
    IF node.processed # "none" THEN "skip"
    ELSE IF ~Truthy(getVideoTitle(node)) THEN "noTitle"
    ELSE IF Blacklisted(getVideoTitle(node).str) THEN "blacklist"
    ELSE "await"

\* processVideo setting no 'pending' before its await
ProcessVideoStartUntagged(node) ==
    CASE StartPath(node) = "blacklist" ->
            [node EXCEPT !.display = "none", !.processed = "done"]
      [] StartPath(node) = "await" -> [node EXCEPT !.opacity = "0.4"]
      [] OTHER -> node

ProcessVideoStart(node) ==
    CASE StartPath(node) = "blacklist" ->
            [node EXCEPT !.display = "none", !.processed = "done"]
      [] StartPath(node) = "await" ->
            [node EXCEPT !.processed = "pending", !.opacity = "0.4"]
      [] OTHER -> node

InitHybrid ==
    /\ PureIdle
    /\ TimersIdle
    /\ storedGoal \in InitialGoalsHybrid
    /\ feed = << >>
    /\ gets = << >>
    /\ retryTimers = << >>
    /\ debounceTimer = FALSE
    /\ shorts = "absent"
    /\ lastScan = << >>
    /\ pathname = "/"
    /\ nodes = [n \in 1..NumNodes |-> NoNode]
    /\ calls = [n \in 1..NumNodes |-> << >>]
    /\ classifier = "loading"
    /\ listener \in { "zeroTolerance", "binary" }
    /\ log = [n \in 1..NumNodes |-> << >>]

\* YouTube adds a feed element, with its title or before rendering it
YouTubeAddsNode(n) ==
    /\ ~nodes[n].present
    /\ \E title \in NodeTitles \cup { JsNull } :
          nodes' = [nodes EXCEPT ![n] = [NoNode EXCEPT !.present = TRUE,
                                                      !.title = title]]
    /\ UNCHANGED << pureVars, storedGoal, strictVars, pathname, calls,
                    classifier, listener, log >>

\* YouTube renders the title of an element it added without one
YouTubeRendersNodeTitle(n) ==
    /\ nodes[n].present
    /\ nodes[n].title = JsNull
    /\ \E title \in NodeTitles : nodes' = [nodes EXCEPT ![n].title = title]
    /\ UNCHANGED << pureVars, storedGoal, strictVars, pathname, calls,
                    classifier, listener, log >>

\* the user moves between the home page and a watch page
YouTubeNavigates ==
    /\ pathname' = IF pathname = "/" THEN "/watch" ELSE "/"
    /\ UNCHANGED << pureVars, storedGoal, strictVars, nodes, calls,
                    classifier, listener, log >>

\* the user saves a goal in the popup: saveFocusGoal()
SaveFocusGoalHybrid ==
    /\ \E rawInput \in PopupInputsHybrid :
          LET sanitizedGoal == sanitizeInput(rawInput)
          IN  storedGoal' = IF Len(sanitizedGoal) = 0 THEN storedGoal
                            ELSE JsString(sanitizedGoal)
    /\ UNCHANGED << pureVars, strictVars, pathname, nodes, calls,
                    classifier, listener, log >>

\* initClassifier(): the pipeline is loaded
ModelLoads ==
    /\ classifier = "loading"
    /\ classifier' = "ready"
    /\ UNCHANGED << pureVars, storedGoal, strictVars, pathname, nodes, calls,
                    listener, log >>

\* initClassifier(): loading the pipeline throws
ModelLoadFails ==
    /\ classifier = "loading"
    /\ classifier' = "failed"
    /\ UNCHANGED << pureVars, storedGoal, strictVars, pathname, nodes, calls,
                    listener, log >>

\* scanPage(), from the interval timer or a scroll event: processVideo on
\* every element, each up to its await
ScanPage ==
    /\ pathname = "/"
    /\ nodes' = [n \in Nodes |-> IF nodes[n].present
                                 THEN ProcessVideoStart(nodes[n]) ELSE nodes[n]]
    /\ calls' = [n \in Nodes |->
                    IF nodes[n].present /\ StartPath(nodes[n]) = "await"
                    THEN Append(calls[n], NewCall(getVideoTitle(nodes[n]).str))
                    ELSE calls[n]]
    /\ log' = [n \in Nodes |->
                    IF nodes[n].present /\ StartPath(nodes[n]) = "blacklist"
                    THEN Append(log[n], Event("blacklist", FALSE, "none", storedGoal))
                    ELSE log[n]]
    /\ UNCHANGED << pureVars, storedGoal, strictVars, pathname, classifier, listener >>

\* processVideo without its keyword matching: every title goes to the
\* classifier when there is a goal
StorageGetResolvesAlwaysAsks(n, k) ==
    /\ calls[n][k].stage = "storage"
    /\ LET call == calls[n][k]
           focusGoal == storedGoal
       IN  IF ~Truthy(focusGoal)
           THEN /\ nodes' = [nodes EXCEPT ![n].opacity = "1", ![n].processed = "done"]
                /\ calls' = [calls EXCEPT ![n] = RemoveAt(calls[n], k)]
                /\ log' = [log EXCEPT ![n] =
                              Append(log[n], Event("noGoal", TRUE, "none", focusGoal))]
           ELSE /\ nodes' = nodes
                /\ calls' = [calls EXCEPT ![n][k] =
                                [call EXCEPT !.stage = "ai", !.focusGoal = focusGoal,
                                             !.timer = "set", !.msg = "sent"]]
                /\ log' = [log EXCEPT ![n] =
                              Append(log[n], Event("request", FALSE, "none", focusGoal))]
    /\ UNCHANGED << pureVars, storedGoal, strictVars, pathname, classifier, listener >>

\* processVideo resumes after `await chrome.storage.local.get('focusGoal')`
StorageGetResolves(n, k) ==
    /\ calls[n][k].stage = "storage"
    /\ LET call == calls[n][k]
           focusGoal == storedGoal
       IN  IF ~Truthy(focusGoal)
           THEN /\ nodes' = [nodes EXCEPT ![n].opacity = "1", ![n].processed = "done"]
                /\ calls' = [calls EXCEPT ![n] = RemoveAt(calls[n], k)]
                /\ log' = [log EXCEPT ![n] =
                              Append(log[n], Event("noGoal", TRUE, "none", focusGoal))]
           ELSE IF MatchesGoal(call.title, focusGoal)
           THEN /\ nodes' = [nodes EXCEPT ![n].opacity = "1", ![n].processed = "done"]
                /\ calls' = [calls EXCEPT ![n] = RemoveAt(calls[n], k)]
                /\ log' = [log EXCEPT ![n] =
                              Append(log[n], Event("keyword", TRUE, "none", focusGoal))]
           ELSE /\ nodes' = nodes
                /\ calls' = [calls EXCEPT ![n][k] =
                                [call EXCEPT !.stage = "ai", !.focusGoal = focusGoal,
                                             !.timer = "set", !.msg = "sent"]]
                /\ log' = [log EXCEPT ![n] =
                              Append(log[n], Event("request", FALSE, "none", focusGoal))]
    /\ UNCHANGED << pureVars, storedGoal, strictVars, pathname, classifier, listener >>

\* `await chrome.storage.local.get('focusGoal')` rejects: processVideo has
\* no try/catch, the call ends there and the element is left as it was
StorageGetRejects(n, k) ==
    /\ calls[n][k].stage = "storage"
    /\ calls' = [calls EXCEPT ![n] = RemoveAt(calls[n], k)]
    /\ UNCHANGED << pureVars, storedGoal, strictVars, pathname, nodes, classifier,
                    listener, log >>

\* a timeout that puts the item back in the queue: it removes
\* data-focus-processed
TimerFiresRequeue(n, k) ==
    /\ calls[n][k].timer = "set"
    /\ nodes' = [nodes EXCEPT ![n].opacity = "1", ![n].processed = "none"]
    /\ calls' = [calls EXCEPT ![n][k].isTimedOut = TRUE, ![n][k].timer = "fired"]
    /\ log' = [log EXCEPT ![n] =
                  Append(log[n], Event("timeout", TRUE, "timeout", calls[n][k].focusGoal))]
    /\ UNCHANGED << pureVars, storedGoal, strictVars, pathname, classifier, listener >>

\* a timeout that marks the element 'done' and leaves its opacity alone
TimerFiresStaysDimmed(n, k) ==
    /\ calls[n][k].timer = "set"
    /\ nodes' = [nodes EXCEPT ![n].processed = "done"]
    /\ calls' = [calls EXCEPT ![n][k].isTimedOut = TRUE, ![n][k].timer = "fired"]
    /\ log' = [log EXCEPT ![n] =
                  Append(log[n], Event("timeout", TRUE, "timeout", calls[n][k].focusGoal))]
    /\ UNCHANGED << pureVars, storedGoal, strictVars, pathname, classifier, listener >>

\* the timeout of TIMEOUT_MS fires
TimerFires(n, k) ==
    /\ calls[n][k].timer = "set"
    /\ nodes' = [nodes EXCEPT ![n].opacity = "1", ![n].processed = "done"]
    /\ calls' = [calls EXCEPT ![n][k].isTimedOut = TRUE, ![n][k].timer = "fired"]
    /\ log' = [log EXCEPT ![n] =
                  Append(log[n], Event("timeout", TRUE, "timeout", calls[n][k].focusGoal))]
    /\ UNCHANGED << pureVars, storedGoal, strictVars, pathname, classifier, listener >>

\* the onMessage listener of the background receives the classify message
ListenerReceives(n, k) ==
    /\ calls[n][k].msg = "sent"
    /\ calls' = [calls EXCEPT ![n][k] =
                    IF classifier # "ready"
                    THEN [@ EXCEPT !.msg = "responded", !.response = Response(TRUE),
                                   !.failure = "notLoaded"]
                    ELSE [@ EXCEPT !.msg = "classifying"]]
    /\ UNCHANGED << pureVars, storedGoal, strictVars, pathname, nodes, classifier,
                    listener, log >>

\* the labels the listener hands to the classifier
CandidateLabels(goal) ==
    IF listener = "zeroTolerance" THEN << goal >> \o DistractionLabels
    ELSE << IF goal # <<>> THEN goal ELSE l_Relevant, l_Distraction >>

\* what the classifier call may do: resolve with a ranking whose top label is
\* one of the candidates; resolve with a value that is not a ranking (empty
\* labels and scores, an object with no labels, undefined); or throw.  (It
\* may also never settle: then no step is taken.)
ClassifierOutcomes(goal) ==
    { [kind |-> "labels", top |-> CandidateLabels(goal)[j]] :
        j \in DOMAIN CandidateLabels(goal) }
    \cup { [kind |-> kind, top |-> <<>>] :
             kind \in { "emptyLabels", "noLabels", "undefined", "throws" } }

\* the answer of the zero-tolerance listener: result.labels[0] throws a
\* TypeError, caught by the listener, when there is no result.labels
ZeroToleranceAnswer(outcome, goal) ==
    CASE outcome.kind = "labels" -> Response(outcome.top = goal)
      [] outcome.kind = "emptyLabels" -> Response(FALSE)
      [] OTHER -> Response(TRUE)

\* the answer of the binary listener: topLabel is not a string when there
\* are no labels, and reading result.labels for the answer throws a
\* TypeError, caught by the listener, when the result is undefined
BinaryAnswer(outcome, goal) ==
    CASE outcome.kind = "labels" ->
            Response(toLowerCase(outcome.top) = toLowerCase(goal))
      [] outcome.kind \in { "emptyLabels", "noLabels" } -> Response(FALSE)
      [] OTHER -> Response(TRUE)

\* the classifier call of the listener settles and the listener answers
ClassifierSettles(n, k) ==
    /\ calls[n][k].msg = "classifying"
    /\ LET call == calls[n][k]
           goal == call.focusGoal.str
       IN  \E outcome \in ClassifierOutcomes(goal) :
              calls' = [calls EXCEPT ![n][k] =
                          [call EXCEPT !.msg = "responded",
                                       !.result = outcome,
                                       !.response =
                                           IF listener = "zeroTolerance"
                                           THEN ZeroToleranceAnswer(outcome, goal)
                                           ELSE BinaryAnswer(outcome, goal),
                                       !.failure =
                                           CASE outcome.kind = "labels" -> "none"
                                             [] outcome.kind = "throws" -> "error"
                                             [] OTHER -> "malformed"]]
    /\ UNCHANGED << pureVars, storedGoal, strictVars, pathname, nodes, classifier,
                    listener, log >>

\* the message port closes with no answer (the background went away): the
\* callback will be called with undefined
PortCloses(n, k) ==
    /\ calls[n][k].msg \in { "sent", "classifying" }
    /\ calls' = [calls EXCEPT ![n][k] =
                    [@ EXCEPT !.msg = "responded", !.response = NoResponse,
                              !.failure = "noResponse"]]
    /\ UNCHANGED << pureVars, storedGoal, strictVars, pathname, nodes, classifier,
                    listener, log >>

\* response && response.hasOwnProperty('shouldShow') ? response.shouldShow : true
Verdict(response) ==
    IF response.defined /\ response.hasShouldShow THEN response.shouldShow ELSE TRUE

\* the callback runs: clearTimeout(timer); the port is closed and the
\* result of the listener is gone with it
ClearTimeout(call) ==
    [call EXCEPT !.msg = "closed",
                 !.result = NoResult,
                 !.timer = IF call.timer = "set" THEN "cleared" ELSE call.timer]

\* the callback of chrome.runtime.sendMessage without its isTimedOut test
ResponseCallbackUnguarded(n, k) ==
    /\ calls[n][k].msg = "responded"
    /\ LET call == calls[n][k]
           shouldShow == Verdict(call.response)
       IN  /\ calls' = [calls EXCEPT ![n][k] = ClearTimeout(call)]
           /\ nodes' = IF shouldShow
                       THEN [nodes EXCEPT ![n].processed = "done", ![n].opacity = "1"]
                       ELSE [nodes EXCEPT ![n].processed = "done", ![n].display = "none"]
           /\ log' = [log EXCEPT ![n] =
                         Append(log[n], Event("response", shouldShow, call.failure,
                                              call.focusGoal))]
    /\ UNCHANGED << pureVars, storedGoal, strictVars, pathname, classifier, listener >>

\* the callback of chrome.runtime.sendMessage
ResponseCallback(n, k) ==
    /\ calls[n][k].msg = "responded"
    /\ LET call == calls[n][k]
           shouldShow == Verdict(call.response)
       IN  /\ calls' = [calls EXCEPT ![n][k] = ClearTimeout(call)]
           /\ IF call.isTimedOut
              THEN /\ nodes' = nodes
                   /\ log' = [log EXCEPT ![n] =
                                 Append(log[n], Event("late", shouldShow, call.failure,
                                                      call.focusGoal))]
              ELSE /\ nodes' = IF shouldShow
                               THEN [nodes EXCEPT ![n].processed = "done",
                                                  ![n].opacity = "1"]
                               ELSE [nodes EXCEPT ![n].processed = "done",
                                                  ![n].display = "none"]
                   /\ log' = [log EXCEPT ![n] =
                                 Append(log[n], Event("response", shouldShow,
                                                      call.failure, call.focusGoal))]
    /\ UNCHANGED << pureVars, storedGoal, strictVars, pathname, classifier, listener >>

NextHybrid ==
    \/ \E n \in Nodes : YouTubeAddsNode(n)
    \/ \E n \in Nodes : YouTubeRendersNodeTitle(n)
    \/ YouTubeNavigates
    \/ SaveFocusGoalHybrid
    \/ ModelLoads
    \/ ModelLoadFails
    \/ ScanPage
    \/ \E n \in Nodes : \E k \in DOMAIN calls[n] : StorageGetResolves(n, k)
    \/ \E n \in Nodes : \E k \in DOMAIN calls[n] : StorageGetRejects(n, k)
    \/ \E n \in Nodes : \E k \in DOMAIN calls[n] : TimerFires(n, k)
    \/ \E n \in Nodes : \E k \in DOMAIN calls[n] : ListenerReceives(n, k)
    \/ \E n \in Nodes : \E k \in DOMAIN calls[n] : ClassifierSettles(n, k)
    \/ \E n \in Nodes : \E k \in DOMAIN calls[n] : PortCloses(n, k)
    \/ \E n \in Nodes : \E k \in DOMAIN calls[n] : ResponseCallback(n, k)

SpecHybrid == InitHybrid /\ [][NextHybrid]_vars

--------------------------------------------------------------------------
(* Properties of the hybrid script, under SpecHybrid                       *)

\* the events that write the decision of an item
Commits == { "blacklist", "noGoal", "keyword", "timeout", "response" }

EventsOf(n, kinds) == { i \in DOMAIN log[n] : log[n][i].e \in kinds }

\* the goal mentions the word, in any letter case
GoalMentions(goal, word) ==
    Truthy(goal) /\ includes(toLowerCase(goal.str), toLowerCase(word))

\* the blacklist words the title of a node contains
BlacklistWordsIn(n) ==
    { k \in DOMAIN BLACKLIST : includes(getVideoTitle(nodes[n]).str, BLACKLIST[k]) }

\* C5: in the hybrid path, an item is never hidden by the blacklist check
\* for words that the goal of the user mentions: whenever processVideo hides
\* an item at its blacklist check, the title contains a blacklist word that
\* the goal stored at that moment does not mention.
C5_HybridIntentOverride ==
    \A n \in Nodes : \A i \in EventsOf(n, { "blacklist" }) :
        \E k \in BlacklistWordsIn(n) : ~GoalMentions(log[n][i].goal, BLACKLIST[k])

\* the goal is empty, or all of its words are stop words
PassThroughGoalHybrid(goal) == ~Truthy(goal) \/ getDynamicKeywords(goal) = << >>

\* C8: in the hybrid path, while the stored goal is empty or made of stop
\* words only, processVideo hides no item and sends no request to the
\* classifier: every decision it writes is show.
C8_HybridPassThrough ==
    \A n \in Nodes : \A i \in DOMAIN log[n] :
        PassThroughGoalHybrid(log[n][i].goal) =>
            /\ log[n][i].e # "request"
            /\ log[n][i].e \in Commits => log[n][i].show

\* C9: a decision written on a timeout or on a failure of the
\* classification (an error, no response, a model that is not loaded, a
\* result that is not a ranking) is show, and none of them hides the item.
C9_FailSafe ==
    \A n \in Nodes : \A i \in EventsOf(n, Commits) :
        log[n][i].failure # "none" => log[n][i].show

\* a call to the classifier is over: its timer fired or its callback ran
Resolved(call) == call.timer = "fired" \/ call.msg = "closed"

\* C10: of the timeout and the response of a classification exactly one
\* writes the decision of the item: a resolved call has written once, no call
\* writes twice, a response after the timeout leaves the item shown and done
\* whatever its verdict, and no timeout fires after a response was written.
C10_ExactlyOnce ==
    \A n \in Nodes :
        /\ Cardinality(EventsOf(n, { "timeout", "response" })) <= 1
        /\ \A k \in DOMAIN calls[n] :
              Resolved(calls[n][k]) =>
                  Cardinality(EventsOf(n, { "timeout", "response" })) = 1
        /\ EventsOf(n, { "late" }) # {} =>
              /\ EventsOf(n, { "timeout" }) # {}
              /\ nodes[n].processed = "done"
              /\ nodes[n].opacity = "1"
              /\ nodes[n].display # "none"
        /\ \A i \in EventsOf(n, { "response" }) : \A j \in EventsOf(n, { "timeout" }) :
              j < i

\* the timeout showed the item, then the classifier answered hide, and the
\* answer was dropped
C10_Witness ==
    \E n \in Nodes : \E i \in EventsOf(n, { "late" }) :
        /\ ~log[n][i].show
        /\ log[n][i].failure = "none"
        /\ \E j \in EventsOf(n, { "timeout" }) : j < i
        /\ nodes[n].display # "none"

\* a call that has not written the decision of its item yet
InFlight(call) == ~Resolved(call)

\* a call whose classify message is out and not answered to the callback
Outstanding(call) == call.msg \in { "sent", "classifying", "responded" }

\* C11: under every interleaving of scans with the steps of processVideo, an
\* item has at most one call of processVideo suspended or waiting for the
\* classifier and at most one classify request, in flight or ever sent; an
\* item with such a call carries data-focus-processed, and a scan over an
\* item that carries it does nothing to it and starts no call for it.
C11_AtMostOneInFlight ==
    \A n \in Nodes :
        /\ Cardinality({ k \in DOMAIN calls[n] : InFlight(calls[n][k]) }) <= 1
        /\ Cardinality({ k \in DOMAIN calls[n] : Outstanding(calls[n][k]) }) <= 1
        /\ Cardinality(EventsOf(n, { "request" })) <= 1
        /\ (\E k \in DOMAIN calls[n] : InFlight(calls[n][k])) =>
              nodes[n].processed = "pending"
        /\ nodes[n].processed # "none" =>
              /\ StartPath(nodes[n]) = "skip"
              /\ ProcessVideoStart(nodes[n]) = nodes[n]

\* an item is pending, dimmed, with its request at the classifier and its
\* timer running, on the home page where every scan reaches it
C11_Witness ==
    \E n \in Nodes : \E k \in DOMAIN calls[n] :
        /\ pathname = "/"
        /\ nodes[n].processed = "pending"
        /\ nodes[n].opacity = "0.4"
        /\ calls[n][k].msg = "classifying"
        /\ calls[n][k].timer = "set"

--------------------------------------------------------------------------
(* Either content script: src/content.js holds the strict script and the   *)
(* hybrid script, and the page runs one of them                            *)

StrictLoaded == listener = "none"

InitScripts == InitStrict \/ InitHybrid

NextScripts ==
    \/ StrictLoaded /\ NextStrict
    \/ ~StrictLoaded /\ NextHybrid

SpecScripts == InitScripts /\ [][NextScripts]_vars

--------------------------------------------------------------------------
(* Properties of both scripts, under SpecScripts                           *)

\* the elements with a title that the last scan of filterVideos passed over
\* because they carried focus-checked
SkippedByLastScan ==
    { i \in videoContainers :
        Truthy(extractVideoTitle(feed[i])) /\ i \notin lastScan.evaluated }

\* C12: a decided item is not evaluated again.  A scan of filterVideos that
\* reads a filtering goal leaves every element that carries focus-checked as
\* it is (classes and all), and a scan of scanPage leaves every element with
\* data-focus-processed = 'done' as it is, writes no decision for it and
\* starts no call for it.
C12_DecidedNotReevaluated ==
    [][ /\ (StrictLoaded /\ FilterVideosCallback /\ lastScan'.path = "filtered") =>
              \A i \in Items : isElementProcessed(feed[i]) => feed'[i] = feed[i]
        /\ (~StrictLoaded /\ ScanPage) =>
              \A n \in Nodes :
                  nodes[n].processed = "done" =>
                      /\ nodes'[n] = nodes[n]
                      /\ log'[n] = log[n]
                      /\ calls'[n] = calls[n] ]_vars

\* a scan under a filtering goal has passed over an element that an earlier
\* scan had shown, while it evaluated another one
C12_Witness ==
    /\ StrictLoaded
    /\ lastScan.path = "filtered"
    /\ lastScan.evaluated # {}
    /\ \E i \in SkippedByLastScan : feed[i].checked /\ ~feed[i].hidden

\* Unprocessed, Pending, Decided
Rank(processed) ==
    CASE processed = "none" -> 0
      [] processed = "pending" -> 1
      [] processed = "done" -> 2

\* C13: the processing state of an item only moves forward, but for the
\* reset of the strict script.  In the hybrid script data-focus-processed
\* never goes from 'done' to 'pending' or from either to no tag.  In the strict
\* script an element gets focus-checked only in a scan that reads a filtering
\* goal and loses it only in a scan that reads a goal that is not one: the
\* goal has changed between the decision and the reset.
C13_Monotonic ==
    [][ /\ StrictLoaded =>
              \A i \in Items :
                  /\ (feed[i].checked /\ ~feed'[i].checked) =>
                        /\ FilterVideosCallback
                        /\ PassThroughGoal(storedGoal)
                  /\ (~feed[i].checked /\ feed'[i].checked) =>
                        /\ FilterVideosCallback
                        /\ ~PassThroughGoal(storedGoal)
        /\ ~StrictLoaded =>
              \A n \in Nodes :
                  Rank(nodes'[n].processed) >= Rank(nodes[n].processed) ]_vars

\* the strict script has reset a feed in which an earlier scan, under another
\* goal, had hidden some elements and shown others
C13_Witness ==
    /\ StrictLoaded
    /\ lastScan.path = "noTopics"
    /\ lastScan.hiddenBefore # {}
    /\ lastScan.hiddenBefore # videoContainers
    /\ \A i \in videoContainers : ~isElementProcessed(feed[i])

--------------------------------------------------------------------------
(* Further properties of the strict script, under SpecStrict               *)

\* what evaluateVideo says of the title of an element under a goal
ShownUnder(goal, element) ==
    LET topics == parseUserGoal(goal)
    IN  evaluateVideo(extractVideoTitle(element), topics,
                      applyIntentOverride(topics, GLOBAL_BLOCKLIST)).shouldShow

\* C14: no item keeps a decision made under a previous goal.  Once a scan
\* of filterVideos has run under the goal now stored, every element left
\* shown (focus-checked, not focus-hidden) is one that this goal shows.
C14_GoalChangeRescans ==
    lastScan.path = "filtered" =>
        \A i \in videoContainers :
            (feed[i].checked /\ ~feed[i].hidden) => ShownUnder(lastScan.goal, feed[i])

--------------------------------------------------------------------------
(* Items without a title, under SpecScripts                                *)

\* the values a missing title may take
MissingTitles == { JsNull, JsUndefined, JsString(<< >>) }

\* C15: an item whose title cannot be read is never decided show.  In the
\* strict script an element without a title never carries focus-checked
\* without focus-hidden; in the hybrid script a node without a title carries
\* no tag, no style and no decision; and evaluateVideo shows no missing
\* title, whatever the goal stored.
C15_MissingTitleNeverShown ==
    /\ StrictLoaded =>
          \A i \in videoContainers :
              ~Truthy(extractVideoTitle(feed[i])) =>
                  ~(feed[i].checked /\ ~feed[i].hidden)
    /\ ~StrictLoaded =>
          \A n \in Nodes :
              (nodes[n].present /\ ~Truthy(getVideoTitle(nodes[n]))) =>
                  /\ nodes[n].processed = "none"
                  /\ nodes[n].opacity = ""
                  /\ nodes[n].display = ""
                  /\ log[n] = << >>
                  /\ calls[n] = << >>
    /\ \A title \in MissingTitles :
          LET topics == parseUserGoal(storedGoal)
          IN  ~evaluateVideo(title, topics,
                             applyIntentOverride(topics, GLOBAL_BLOCKLIST)).shouldShow

\* a scan of the strict script has hidden an element that has no title, and
\* shown another one
C15_Witness ==
    /\ StrictLoaded
    /\ lastScan.path = "filtered"
    /\ \E i \in videoContainers :
          /\ ~Truthy(extractVideoTitle(feed[i]))
          /\ feed[i].checked
          /\ feed[i].hidden
    /\ \E i \in videoContainers : feed[i].checked /\ ~feed[i].hidden

\* C16: an item without a title is not ready, not hidden: when its title
\* becomes available the element carries no focus-checked, so that the next
\* scan of filterVideos does not pass over it but evaluates the title.
C16_MissingTitleNotPermanent ==
    [][ \A i \in Items :
            ( /\ feed[i].present
              /\ ~Truthy(extractVideoTitle(feed[i]))
              /\ Truthy(extractVideoTitle(feed'[i])) ) =>
                ~isElementProcessed(feed'[i]) ]_vars

\* C17: the retry on an empty feed is bounded.  No attempt of filterVideos
\* runs with a retryCount above MAX_RETRIES and no retry is ever scheduled
\* with one; a retry is scheduled only by a scan that reads a filtering goal,
\* finds no element and has retryCount < MAX_RETRIES, and it is scheduled with
\* retryCount + 1; a scan that finds an element, and the scan with retryCount
\* = MAX_RETRIES, schedule nothing.
C17_RetryBounded ==
    /\ [](/\ \A k \in DOMAIN gets : gets[k] \in 0..MAX_RETRIES
          /\ \A k \in DOMAIN retryTimers : retryTimers[k] \in 1..MAX_RETRIES)
    /\ [][ /\ retryTimers' # retryTimers =>
                 \/ RetryFires /\ retryTimers' = Tail(retryTimers)
                 \/ /\ FilterVideosCallback
                    /\ ~PassThroughGoal(storedGoal)
                    /\ videoContainers = {}
                    /\ Head(gets) < MAX_RETRIES
                    /\ retryTimers' = Append(retryTimers, Head(gets) + 1)
           /\ (FilterVideosCallback /\ videoContainers # {}) =>
                 retryTimers' = retryTimers
           /\ (FilterVideosCallback /\ Head(gets) = MAX_RETRIES) =>
                 /\ retryTimers' = retryTimers
                 /\ gets' = Tail(gets)
                 /\ debounceTimer' = debounceTimer ]_vars

\* the fourth attempt of a cycle found the feed still empty and gave up,
\* and nothing is scheduled any more
C17_Witness ==
    /\ lastScan.path = "gaveUp"
    /\ lastScan.retryCount = MAX_RETRIES
    /\ videoContainers = {}
    /\ retryTimers = << >>
    /\ gets = << >>
    /\ ~debounceTimer

--------------------------------------------------------------------------
(* The strict script with the passing of time: the 500 ms window of        *)
(* debounce() is DebounceTicks ticks of a clock                            *)

\* bounds: the ticks in the window of the debounce, and the notifications
\* of a burst that are counted
DebounceTicks == 2
MaxBurst == 2

\* bound: the feed elements YouTube adds while the clock is watched
NumTimedItems == 1

TimedItems == 1..NumTimedItems

\* YouTube changes the document under document.body in some other way
YouTubeMutatesDom ==
    /\ ObserverCallback
    /\ lastScan' = NoScan
    /\ UNCHANGED << pureVars, hybridVars, storedGoal, feed, gets, retryTimers, shorts >>

\* a change notification: any childList mutation in the subtree of the body
Notification ==
    \/ \E i \in TimedItems : YouTubeAddsItem(i)
    \/ \E i \in TimedItems : YouTubeRendersTitle(i)
    \/ YouTubeMutatesDom

\* executedFunction(): clearTimeout(timeout); timeout = setTimeout(later, wait).
\* The window starts again; the notification joins the burst under way, or
\* starts one when no timeout is set.
TimedNotification ==
    /\ Notification
    /\ elapsed' = 0
    /\ burst' = IF ~debounceTimer THEN 1
                ELSE IF burst < MaxBurst THEN burst + 1 ELSE burst

\* a tick of the clock while the timeout is set
Tick ==
    /\ debounceTimer
    /\ elapsed < DebounceTicks
    /\ elapsed' = elapsed + 1
    /\ lastScan' = NoScan
    /\ UNCHANGED << pureVars, hybridVars, storedGoal, feed, gets, retryTimers,
                    debounceTimer, shorts, burst >>

\* a debounce that calls applyFilters() without waiting for the window
LeadingDebounceFires ==
    /\ DebounceFires
    /\ elapsed' = 0
    /\ burst' = burst

\* later(), run by the timeout once the window has passed
TimedDebounceFires ==
    /\ elapsed >= DebounceTicks
    /\ DebounceFires
    /\ elapsed' = 0
    /\ burst' = burst

\* the script starts on a page with a goal stored, and has hidden the
\* Shorts link
InitStrictTimed ==
    /\ InitStrict
    /\ Truthy(storedGoal)
    /\ shorts = "hidden"

NextStrictTimed ==
    \/ TimedNotification
    \/ Tick
    \/ TimedDebounceFires
    \/ RetryFires /\ UNCHANGED timerVars
    \/ FilterVideosCallback /\ UNCHANGED timerVars
    \/ SaveFocusGoal /\ UNCHANGED timerVars

SpecStrictTimed == InitStrictTimed /\ [][NextStrictTimed]_vars

--------------------------------------------------------------------------
(* Properties of the debounce, under SpecStrictTimed                       *)

\* C18: a change notification starts no scan: it leaves the requests, the
\* retries and the classes of the feed alone and sets the one timeout again,
\* with the whole window ahead.  applyFilters() is called from the timeout
\* only, when a whole window has passed since the last notification, once,
\* and the timeout is then no longer set: a burst of notifications less than a
\* window apart ends in exactly one scan.
C18_Debounce ==
    [][ /\ TimedNotification =>
              /\ gets' = gets
              /\ retryTimers' = retryTimers
              /\ shorts' = shorts
              /\ \A i \in Items : /\ feed'[i].checked = feed[i].checked
                                  /\ feed'[i].hidden = feed[i].hidden
              /\ debounceTimer'
        /\ (Len(gets') > Len(gets) /\ gets'[Len(gets')] = 0) =>
              /\ debounceTimer
              /\ elapsed >= DebounceTicks
              /\ gets' = Append(gets, 0)
              /\ ~debounceTimer'
        /\ (debounceTimer /\ ~debounceTimer') => gets' = Append(gets, 0) ]_vars

\* a burst of MaxBurst notifications has ended in one scan: the timeout has
\* fired and is not set, and the only request under way is the one it made
C18_Witness ==
    /\ burst = MaxBurst
    /\ ~debounceTimer
    /\ gets = << 0 >>
    /\ retryTimers = << >>
    /\ lastScan = NoScan
    /\ videoContainers # {}

--------------------------------------------------------------------------
(* Liveness of the strict script: the clock goes on, a timeout that is due  *)
(* fires, a storage read is answered.  Nothing is assumed of YouTube.       *)

\* chrome.storage.local.get calls its callback: the step of the script
\* that takes the first read off the queue
StorageAnswers ==
    /\ gets # << >>
    /\ gets' = Tail(gets)

SpecStrictTimedFair ==
    /\ SpecStrictTimed
    /\ WF_vars(Tick)
    /\ WF_vars(TimedDebounceFires)
    /\ WF_vars(RetryFires /\ UNCHANGED timerVars)
    /\ WF_gets(StorageAnswers)

\* C19: under a filtering goal, every element of the feed that is present
\* with a title is eventually decided (it gets focus-checked), whether change
\* notifications stop or keep arriving less than a debounce window apart,
\* unless the user replaces the goal by one that filters nothing.
C19_SafetyPoll ==
    \A i \in TimedItems :
        ( /\ ~PassThroughGoal(storedGoal)
          /\ feed[i].present
          /\ Truthy(extractVideoTitle(feed[i])) )
            ~> (isElementProcessed(feed[i]) \/ PassThroughGoal(storedGoal))

--------------------------------------------------------------------------
(* The hybrid script when its collaborators settle: the read of the goal   *)
(* resolves or rejects, and a timeout that was set fires or is cleared.    *)
(* The classifier may stay silent.                                         *)

\* the promise of chrome.storage.local.get settles
StorageGetSettles ==
    \E n \in Nodes : \E k \in DOMAIN calls[n] :
        StorageGetRejects(n, k) \/ StorageGetResolves(n, k)

\* a timeout of processVideo fires
SomeTimerFires == \E n \in Nodes : \E k \in DOMAIN calls[n] : TimerFires(n, k)

SpecHybridFair ==
    /\ SpecHybrid
    /\ WF_vars(StorageGetSettles)
    /\ WF_vars(SomeTimerFires)

\* C20: an item that processVideo tagged 'pending' is eventually tagged
\* 'done' (shown or hidden), whatever fails: the read of the goal, the
\* classifier, or the response that never comes.
C20_NoFailureBlocks ==
    \A n \in 1..NumNodes :
        (nodes[n].processed = "pending") ~> (nodes[n].processed = "done")

--------------------------------------------------------------------------
(* The answer of the background listener (SpecHybrid)                      *)

\* the classifier call of the listener resolved with a ranking of the
\* candidate labels
Succeeded(call) == call.result.kind = "labels"

\* C21: whenever the classifier resolved with a ranking, the listener
\* answers shouldShow = true exactly when the top label equals the goal of
\* the message with the letter case ignored, and shouldShow = false
\* otherwise.
C21_SuccessRule ==
    \A n \in Nodes : \A k \in DOMAIN calls[n] :
        Succeeded(calls[n][k]) =>
            calls[n][k].response =
                Response(toLowerCase(calls[n][k].result.top)
                            = toLowerCase(calls[n][k].focusGoal.str))

--------------------------------------------------------------------------
(* The scans of the strict script end, under SpecStrictTimed               *)

RECURSIVE Sum(_)
Sum(numbers) == IF numbers = << >> THEN 0 ELSE Head(numbers) + Sum(Tail(numbers))

\* the steps the script can still take for a storage read that was made by
\* filterVideos(retryCount): its callback, and the retries that may follow
GetWork(retryCount) == 2 * (MAX_RETRIES - retryCount) + 2

\* the steps the script can still take, if YouTube changes nothing: the
\* ticks up to the debounce timeout and the scan it starts, the retry
\* timeouts and the storage callbacks
Work ==
    (IF debounceTimer THEN GetWork(0) + 1 + (DebounceTicks - elapsed) ELSE 0)
    + Sum([k \in DOMAIN gets |-> GetWork(gets[k])])
    + Sum([k \in DOMAIN retryTimers |-> GetWork(retryTimers[k]) + 1])

\* no timeout is set and no storage read is under way
Quiescent == ~debounceTimer /\ gets = << >> /\ retryTimers = << >>

\* the classes focus-checked and focus-hidden of some element change
TagsChange ==
    \E i \in Items : \/ feed'[i].checked # feed[i].checked
                      \/ feed'[i].hidden # feed[i].hidden

--------------------------------------------------------------------------
(* One scan of the hybrid script over a page of several elements, while    *)
(* the user saves goals.  The model is not loaded: the listener answers    *)
(* at once.                                                                *)

\* bound: the elements of the page
NumPairNodes == 2

PairTitles == << JsString(t_pythonTutorial), JsString(t_cuteCats) >>

\* the script starts on a page whose elements are rendered, with a goal
\* stored; setInterval(scanPage, 1000) is set and no scan has run
InitHybridPair ==
    /\ PureIdle
    /\ storedGoal = JsString(g_learnPython)
    /\ feed = << >>
    /\ gets = << >>
    /\ retryTimers = << >>
    /\ debounceTimer = FALSE
    /\ shorts = "absent"
    /\ lastScan = << >>
    /\ TimersIdle
    /\ pathname = "/"
    /\ nodes = [n \in 1..NumPairNodes |->
                  [NoNode EXCEPT !.present = TRUE,
                                 !.title = PairTitles[((n - 1) % Len(PairTitles)) + 1]]]
    /\ calls = [n \in 1..NumPairNodes |-> << >>]
    /\ classifier = "failed"
    /\ listener \in { "zeroTolerance", "binary" }
    /\ log = [n \in 1..NumPairNodes |-> << >>]

NextHybridPair ==
    \/ SaveFocusGoalHybrid
    \/ ScanPage
    \/ \E n \in Nodes : \E k \in DOMAIN calls[n] : StorageGetResolves(n, k)
    \/ \E n \in Nodes : \E k \in DOMAIN calls[n] : TimerFires(n, k)
    \/ \E n \in Nodes : \E k \in DOMAIN calls[n] : ListenerReceives(n, k)
    \/ \E n \in Nodes : \E k \in DOMAIN calls[n] : ResponseCallback(n, k)

SpecHybridPair == InitHybridPair /\ [][NextHybridPair]_vars

\* the events in which processVideo used the goal it read: the decision it
\* took on it, or the request it sent with it
GoalUses == { "noGoal", "keyword", "request" }

\* C25: the elements of one scan are evaluated against one value of the
\* goal: the elements that the first scanPage() handed to processVideo
\* (all of them, none was tagged before) were decided, or sent to the
\* classifier, with the same goal.
C25_ConsistentSnapshot ==
    \A n, m \in Nodes :
        \A i \in EventsOf(n, GoalUses) : \A j \in EventsOf(m, GoalUses) :
            log[n][i].goal = log[m][j].goal

--------------------------------------------------------------------------
(* When processVideo asks the classifier (SpecHybrid)                      *)

\* a classify request for the title under the goal is one the code may
\* send: there is a title, no blacklist term is in it, there is a goal and
\* no keyword of the goal is in the title
RequestRequired(title, goal) ==
    /\ title # << >>
    /\ ~Blacklisted(title)
    /\ Truthy(goal)
    /\ ~MatchesGoal(title, goal)

\* a call that has sent its message or set its timer
Asked(call) == call.msg # "none" \/ call.timer # "unset"

--------------------------------------------------------------------------
(* The goal as a title: each script matches a title that is the goal       *)
(* itself, letter by letter, against what it extracts from the goal        *)

\* filterVideos on an element whose title is the goal: parseUserGoal,
\* applyIntentOverride, evaluateVideo
CallEvaluateVideoOnGoal ==
    /\ pc = "ready"
    /\ videoTitle' = goalString
    /\ coreTopics' = parseUserGoal(goalString)
    /\ blocklist' = applyIntentOverride(coreTopics', GLOBAL_BLOCKLIST)
    /\ evaluation' = evaluateVideo(videoTitle', coreTopics', blocklist')
    /\ pc' = "evaluatedGoal"
    /\ UNCHANGED << goalString, sysVars >>

\* processVideo on an element whose title is the goal: the keyword match
\* userKeywords.some(keyword => lowerTitle.includes(keyword))
CallKeywordMatchOnGoal ==
    /\ pc = "ready"
    /\ IsString(goalString)
    /\ videoTitle' = goalString
    /\ evaluation' =
          [NoEvaluation EXCEPT !.hasPositiveMatch =
                                  MatchesGoal(videoTitle'.str, goalString)]
    /\ pc' = "matchedGoal"
    /\ UNCHANGED << goalString, coreTopics, blocklist, sysVars >>

NextOwnGoal == CallEvaluateVideoOnGoal \/ CallKeywordMatchOnGoal

SpecOwnGoal == InitGoal /\ [][NextOwnGoal]_vars

\* C28: a title equal to the goal is a positive match in evaluateVideo
\* whenever the goal has a core topic, and matches a keyword in processVideo
\* whenever the goal has a keyword
C28_SameTokenization ==
    /\ (pc = "evaluatedGoal" /\ coreTopics # {}) => evaluation.hasPositiveMatch
    /\ (pc = "matchedGoal" /\ getDynamicKeywords(goalString) # << >>) =>
            evaluation.hasPositiveMatch

--------------------------------------------------------------------------
(* The two classes of an element of the feed (SpecStrict) *)

\* the step takes focus-checked or focus-hidden off element i
TagRemoved(i) ==
    \/ feed[i].checked /\ ~feed'[i].checked
    \/ feed[i].hidden /\ ~feed'[i].hidden

\* C29: every element that carries focus-hidden carries focus-checked, and
\* a step that takes one of the two classes off an element leaves it with
\* neither
C29_HiddenImpliesProcessed ==
    /\ [](\A i \in Items : feed[i].hidden => isElementProcessed(feed[i]))
    /\ [][\A i \in Items :
              TagRemoved(i) => ~feed'[i].checked /\ ~feed'[i].hidden]_vars

\* a scan under a goal with topics found an element hidden by an earlier
\* scan, and the feed now holds a hidden and a shown element
C29_Witness ==
    /\ lastScan.path = "filtered"
    /\ lastScan.hiddenBefore # {}
    /\ \E i \in videoContainers : feed[i].hidden /\ feed[i].checked
    /\ \E i \in videoContainers : ~feed[i].hidden /\ feed[i].checked

--------------------------------------------------------------------------
(* Ghost mode: the opacity of an element and its data-focus-processed      *)
(* (SpecHybrid)                                                            *)

\* the element is rendered at opacity 0.4
Dimmed(node) == node.opacity = "0.4" /\ node.display # "none"

\* C30: an element is rendered dimmed only while it is 'pending'; a 'done'
\* element has opacity 1 or display none; an element without
\* data-focus-processed has never had its opacity or display set
C30_GhostTransient ==
    \A n \in Nodes :
        /\ Dimmed(nodes[n]) => nodes[n].processed = "pending"
        /\ nodes[n].processed = "done" =>
                nodes[n].opacity = "1" \/ nodes[n].display = "none"
        /\ nodes[n].processed = "none" =>
                nodes[n].opacity = "" /\ nodes[n].display = ""

\* the classifier's answer has hidden an element that was dimmed while it
\* waited: it is 'done', display none, its opacity still 0.4
C30_Witness ==
    \E n \in Nodes :
        /\ nodes[n].processed = "done"
        /\ nodes[n].display = "none"
        /\ nodes[n].opacity = "0.4"
        /\ EventsOf(n, { "response" }) # {}

==========================================================================
